---- MODULE Spec2Model ----
(***************************************************************************)
(* Model of main_without_db.py: the VideoProcessor batch pipeline.         *)
(*                                                                         *)
(* The store (one worksheet) is a sequence of rows, each row a sequence of *)
(* at most three cells (A url, B result, C status) holding strings.  One   *)
(* invocation of run() is a process; its steps are the calls it makes to   *)
(* its collaborators (sheet read, cell writes, transcript fetch, LLM       *)
(* call), each followed by the local code up to the next call.             *)
(***************************************************************************)
EXTENDS Integers, Sequences, FiniteSets, TLC

\* ------------------------------------------------------------------ bounds
\* Rows of the store in an initial state.
MaxRows == 2
\* Invocations of run() in one behaviour.
MaxRuns == 2
\* Cell writes that fail in one behaviour.
MaxWriteFailures == 2

\* ----------------------------------------------------------------- strings
\* Python str operations, on TLA+ strings (Len, \o, SubSeq, Head, Tail).

\* The characters str.strip() removes (the ones the inputs use).
Whitespace == {" ", "\t", "\n"}

UpperCase == "ABCDEFGHIJKLMNOPQRSTUVWXYZ"
LowerCase == "abcdefghijklmnopqrstuvwxyz"

CharAt(s, i) == SubSeq(s, i, i)

\* str.lower() on one character: the table of the 26 letters it changes.
LowerTable ==
    [c \in {CharAt(UpperCase, i) : i \in 1..Len(UpperCase)} |->
        CharAt(LowerCase, CHOOSE i \in 1..Len(UpperCase) : CharAt(UpperCase, i) = c)]

LowerChar(c) == IF c \in DOMAIN LowerTable THEN LowerTable[c] ELSE c

RECURSIVE lower(_)
\* str.lower()
lower(s) == IF s = "" THEN "" ELSE LowerChar(Head(s)) \o lower(Tail(s))

RECURSIVE lstrip(_)
lstrip(s) == IF s # "" /\ Head(s) \in Whitespace THEN lstrip(Tail(s)) ELSE s

RECURSIVE rstrip(_)
rstrip(s) ==
    IF s # "" /\ CharAt(s, Len(s)) \in Whitespace
    THEN rstrip(SubSeq(s, 1, Len(s) - 1))
    ELSE s

\* str.strip()
strip(s) == rstrip(lstrip(s))

\* Python's "sub in s".
Contains(sub, s) ==
    \E i \in 1..(Len(s) - Len(sub) + 1) : SubSeq(s, i, i + Len(sub) - 1) = sub

\* Optional[str]: None, or a string.
None == <<>>
Some(s) == <<s>>
\* Python truthiness of an Optional[str]: neither None nor "".
Truthy(o) == o # None /\ o[1] # ""
\* A collaborator's answer is a text of at least one character.
HasText(o) == Len(o) = 1 /\ Len(o[1]) > 0

\* ------------------------------------------------------------------ inputs
\* Values of column A: a supported URL, one padded with blanks and in mixed
\* case, one on a supported domain in upper case, one that only contains a
\* supported domain inside another host name, an unsupported one, a blank
\* cell and an empty one.
UrlInputs ==
    { "https://youtu.be/abc", " https://Vimeo.com/7 ", "HTTPS://X.COM/U/1",
      "https://dropbox.com/f", "https://example.org/v", " ", "" }

\* Values of column C: empty, blank, the three labels, a label padded with
\* blanks, and a manual annotation.
StatusInputs == { "", " ", "PROCESSING", "COMPLETED", "ERROR", " ERROR ", "done" }

\* ------------------------------------------------------------- URL Classifier
supported_domains ==
    << "youtube.com", "youtu.be", "twitter.com", "x.com", "vimeo.com",
       "tiktok.com", "instagram.com", "facebook.com", "fb.com",
       "linkedin.com", "reddit.com" >>

\* Line 103: any(domain in url.lower() for domain in supported_domains).
MatchesDomain(lowered) ==
    \E k \in DOMAIN supported_domains : Contains(supported_domains[k], lowered)

is_supported_video_url(url) == MatchesDomain(lower(url))

\* The Classifier's answers on the URLs of the inputs, computed once.
SupportedTable ==
    [u \in UrlInputs \cup {strip(x) : x \in UrlInputs} |-> is_supported_video_url(u)]

Supported(url) ==
    IF url \in DOMAIN SupportedTable THEN SupportedTable[url]
    ELSE is_supported_video_url(url)

\* ------------------------------------------------------------- Record Scanner
\* url and status of a row as lines 190-191 read them.
RowUrl(row) == IF Len(row) > 0 THEN strip(row[1]) ELSE ""
\* The status read from column B instead of column C.
RowStatusFromB(row) == IF Len(row) > 1 THEN strip(row[2]) ELSE ""
RowStatus(row) == IF Len(row) > 2 THEN strip(row[3]) ELSE ""

\* The URL test without the Classifier (only "not url").
SkipUrlEmptyOnly(url) == url = ""

\* Line 194: the row is skipped for its URL.
SkipUrl(url) == url = "" \/ ~Supported(url)

\* The status test narrowed to the three labels.
SkipStatusLabelsOnly(status) == status \in {"PROCESSING", "COMPLETED", "ERROR"}

\* The status test that skips only the rows that are done.
SkipStatusTerminalOnly(status) == status \in {"COMPLETED", "ERROR"}

\* The status test that skips only the rows in flight.
SkipStatusProcessingOnly(status) == status = "PROCESSING"

\* Line 198: the row is skipped for its status.
SkipStatus(status) ==
    status \in {"PROCESSING", "COMPLETED", "ERROR"} \/ strip(status) # ""

\* enumerate(all_values, start=1): the index of the first row.
EnumerateStart == 1

RECURSIVE ScanLoop(_, _, _)
\* The for loop of get_new_urls from position k (1-based in all_values) on,
\* with new_urls as collected so far.
ScanLoop(all_values, k, acc) ==
    IF k > Len(all_values) THEN acc
    ELSE LET row == all_values[k]
             row_idx == k - 1 + EnumerateStart
         IN  IF Len(row) = 0 THEN ScanLoop(all_values, k + 1, acc)
             ELSE IF SkipUrl(RowUrl(row)) THEN ScanLoop(all_values, k + 1, acc)
             ELSE IF SkipStatus(RowStatus(row)) THEN ScanLoop(all_values, k + 1, acc)
             ELSE ScanLoop(all_values, k + 1,
                           Append(acc, [url |-> RowUrl(row), row |-> row_idx]))

\* get_new_urls when the read succeeds with all_values.
ScanRows(all_values) == ScanLoop(all_values, 1, <<>>)

\* ---------------------------------------------------------------- the store
\* update_acell on column col (1 = A, 2 = B, 3 = C) of a row: the grid cell
\* is set; cells the read omitted (trailing blanks) read back as "".
RECURSIVE Pad(_, _)
Pad(row, n) == IF Len(row) >= n THEN row ELSE Pad(Append(row, ""), n)

\* The write that lands one column to the left (B in A, C in B).
SetCellShifted(sh, row, col, v) ==
    [sh EXCEPT ![row] = [Pad(sh[row], col - 1) EXCEPT ![col - 1] = v]]

SetCell(sh, row, col, v) ==
    [sh EXCEPT ![row] = [Pad(sh[row], col) EXCEPT ![col] = v]]

\* The cell as get_all_values shows it ("" when the row is shorter).
Cell(sh, row, col) == IF Len(sh[row]) >= col THEN sh[row][col] ELSE ""

\* ------------------------------------------------------------ Status Writer
max_cell_chars == 50000
max_chars == 100000
TruncationMarker == "... [TRUNCATED]"

\* The truncation that also cuts a text of exactly limit characters.
TruncateFromLimit(text, limit) ==
    IF Len(text) >= limit THEN SubSeq(text, 1, limit) \o TruncationMarker ELSE text

\* Lines 219-220 (and 158-159): text[:limit] + marker when longer than limit.
Truncate(text, limit) ==
    IF Len(text) > limit THEN SubSeq(text, 1, limit) \o TruncationMarker ELSE text

\* How a call ends: it returns a value, or an exception leaves it.
Return(v) == [kind |-> "return", value |-> <<v>>]
Raise(e) == [kind |-> "raise", value |-> <<e>>]
Returned(c) == c.kind = "return"

NoCall == [row |-> 0, status |-> "", result |-> "", site |-> "none"]

\* Entering update_sheet_status(row, status, result) from call site `site`
\* (lines 213-221): the call is recorded, the result truncated; the next
\* step is the column-B write when result is non-empty, else the column-C
\* write.
CallWriter(s, row, status, result, site) ==
    [s EXCEPT
       !.trace = Append(@, <<"update_sheet_status", row, status, result>>),
       !.call = [row |-> row, status |-> status,
                 result |-> IF result # "" THEN Truncate(result, max_cell_chars)
                            ELSE result,
                 site |-> site],
       !.pc = IF result # "" THEN "update_B" ELSE "update_C"]

\* ---------------------------------------------------------------- Run Loop
\* Lines 289-300: the tally of one process_url outcome and the move to the
\* next entry; after the last entry run() logs the counts and returns.
\* The tally without the else branch of line 293.
TallyNoElse(s, res) ==
    IF Returned(res)
    THEN IF res.value[1]
         THEN [s EXCEPT !.processed_count = @ + 1, !.ret = "True"]
         ELSE [s EXCEPT !.ret = "False"]
    ELSE [s EXCEPT !.error_count = @ + 1, !.ret = "raised"]

Tally(s, res) ==
    IF Returned(res)
    THEN IF res.value[1]
         THEN [s EXCEPT !.processed_count = @ + 1, !.ret = "True"]
         ELSE [s EXCEPT !.error_count = @ + 1, !.ret = "False"]
    ELSE \* line 296: except Exception inside the loop
         [s EXCEPT !.error_count = @ + 1, !.ret = "raised"]

\* The loop left at the first entry that did not succeed.
AdvanceStopOnError(s) ==
    IF s.idx < Len(s.new_urls) /\ s.ret = "True"
    THEN [s EXCEPT !.idx = @ + 1, !.pc = "process_url"]
    ELSE [s EXCEPT !.pc = "done"]

Advance(s) ==
    IF s.idx < Len(s.new_urls)
    THEN [s EXCEPT !.idx = @ + 1, !.pc = "process_url"]
    ELSE [s EXCEPT !.pc = "done"]

ProcessUrlDone(s, res) == Advance(Tally([s EXCEPT !.call = NoCall], res))

\* --------------------------------------------------------- Record Processor
\* The except clause that returns False without the ERROR write.
process_url_except_silent(s, e) == ProcessUrlDone(s, Return(FALSE))

\* The except clause that writes a status the Scanner does not know.
process_url_except_failed(s, e) ==
    CallWriter(s, s.new_urls[s.idx].row, "FAILED", "Error: " \o e, "error")

\* Lines 268-273: the except clause of process_url.
process_url_except(s, e) ==
    CallWriter(s, s.new_urls[s.idx].row, "ERROR", "Error: " \o e, "error")

\* The success path written with the transcript in place of the analysis.
process_url_success_transcript(s, analysis) ==
    CallWriter(s, s.new_urls[s.idx].row, "COMPLETED", s.transcript[1], "completed")

\* Lines 262-266: the success path of process_url.
process_url_success(s, analysis) ==
    CallWriter(s, s.new_urls[s.idx].row, "COMPLETED", analysis, "completed")

\* A process_url that takes a failed COMPLETED write for a failure of the
\* record: it goes to its except clause.
WriterDoneChecked(s0, completion) ==
    LET s == [s0 EXCEPT !.trace = Append(@, <<"end", completion.kind>>)]
        written == s0.trace[Len(s0.trace)][5]
    IN  CASE s.call.site = "processing" ->
               IF Returned(completion)
               THEN [s EXCEPT !.pc = "get_transcript", !.call = NoCall]
               ELSE ProcessUrlDone(s, completion)
          [] s.call.site = "completed" ->
               IF Returned(completion) /\ written THEN ProcessUrlDone(s, Return(TRUE))
               ELSE process_url_except(s, "APIError")
          [] OTHER ->
               IF Returned(completion) THEN ProcessUrlDone(s, Return(FALSE))
               ELSE ProcessUrlDone(s, completion)

\* update_sheet_status has ended with `completion`; control goes back to the
\* call site: line 247 (outside the try), line 263 (inside it) or line 272
\* (inside the except clause).
WriterDone(s0, completion) ==
    LET s == [s0 EXCEPT !.trace = Append(@, <<"end", completion.kind>>)]
    IN  CASE s.call.site = "processing" ->
               IF Returned(completion)
               THEN [s EXCEPT !.pc = "get_transcript", !.call = NoCall]
               ELSE ProcessUrlDone(s, completion)
          [] s.call.site = "completed" ->
               IF Returned(completion) THEN ProcessUrlDone(s, Return(TRUE))
               ELSE process_url_except(s, completion.value[1])
          [] OTHER ->
               IF Returned(completion) THEN ProcessUrlDone(s, Return(FALSE))
               ELSE ProcessUrlDone(s, completion)

\* The column-B write without its own try: the exception goes on.
update_result_reraise(e) == Raise(e)

\* Lines 226-227: the except clause around the column-B write.
update_result_except(e) == Return("logged")
\* Lines 233-234: the except clause around the column-C write.
update_status_except(e) == Return("logged")
\* Lines 236-237: the outer except clause of update_sheet_status.
update_sheet_except(e) == Return("logged")

\* The tests written as "is None".
NoTranscriptNoneOnly(t) == t = None
NoAnalysisNoneOnly(a) == a = None

\* Line 252 and line 259: "if not transcript", "if not analysis".
NoTranscript(t) == ~Truthy(t)
NoAnalysis(a) == ~Truthy(a)

TranscriptError == "Could not retrieve transcript using Supadata"
AnalysisError == "Gemini analysis failed"
WriteError == "APIError"
ReadError == "APIError"

\* get_new_urls without its try: the exception goes on to run().
get_new_urls_reraise(e) == Raise(e)

\* Lines 209-211: the except clause of get_new_urls.
get_new_urls_except(e) == Return(<<>>)
\* Lines 302-303: the except clause of run().
run_except(e) == Return("logged")

\* -------------------------------------------------------------------- state
\* sheet: the worksheet, shared by every invocation.
\* runs:  the number of invocations of run() started so far.
\* proc:  per invocation slot, the position (pc) and locals of run() and of
\*        the calls below it, and a record of what the invocation did:
\*          sheet0     the store when the invocation started,
\*          read       how the read of the store ended ("none" before it),
\*          scan       how get_new_urls ended ("none" before it is called),
\*          processed  the entries process_url was invoked on, in order,
\*          answers    per entry of processed, whether the Fetcher and whether
\*                     the Summarizer answered with a non-empty text,
\*          trace      the collaborator calls of the current process_url, and
\*                     how each update_sheet_status ended,
\*          marks      per entry of processed, the statuses whose column-C
\*                     write succeeded during its process_url,
\*          earlier    the entries process_url was invoked on in the earlier
\*                     invocations of the slot, each with its marks,
\*          ret        how the last process_url ended,
\*          count0     (processed_count, error_count) when it was entered,
\*          escaped    whether an exception left run().
\* write_failures: the number of cell writes that have failed so far.
VARIABLES sheet, runs, proc, write_failures

vars == <<sheet, runs, proc, write_failures>>

\* The slots of invocations of run(); two, for invocations that overlap.
Procs == {"run1", "run2"}
\* The slot of an invocation that does not overlap any other.
Main == "run1"

IdleProc ==
    [pc |-> "idle", new_urls |-> <<>>, idx |-> 0,
     processed_count |-> 0, error_count |-> 0,
     transcript |-> None, analysis |-> None, call |-> NoCall,
     sheet0 |-> <<>>, read |-> "none", scan |-> "none",
     processed |-> <<>>, answers |-> <<>>, trace |-> <<>>,
     marks |-> <<>>, earlier |-> {},
     ret |-> "none", count0 |-> <<0, 0>>, escaped |-> FALSE]

\* What the collaborators can answer.
FetchOutcomes == {None, Some(""), Some("transcript text")}
AnalysisOutcomes == {None, Some(""), Some("summary text")}

RECURSIVE Repeat(_, _)
\* The text of n characters c.
Repeat(c, n) ==
    IF n = 0 THEN ""
    ELSE IF n % 2 = 0 THEN LET h == Repeat(c, n \div 2) IN h \o h
    ELSE c \o Repeat(c, n - 1)

\* A text of n characters (n > 0) whose last character differs from the
\* others.
TextOfLen(c, n) == Repeat(c, n - 1) \o "."

\* Answers around the two limits: a transcript of exactly max_chars
\* characters and one of a character more, a summary of exactly
\* max_cell_chars characters and one of a character more.
LongFetchOutcomes ==
    { Some("transcript text"),
      Some(TextOfLen("t", max_chars)), Some(TextOfLen("t", max_chars + 1)) }
LongAnalysisOutcomes ==
    { None, Some("summary text"),
      Some(TextOfLen("s", max_cell_chars)), Some(TextOfLen("s", max_cell_chars + 1)) }

\* Rows of the initial store: an eligible record, one whose status cell
\* holds only a blank, one already handled, and one with an unsupported URL.
RowChoices ==
    { <<"https://youtu.be/abc", "", "">>,
      <<" https://Vimeo.com/7 ", "", " ">>,
      <<"https://youtu.be/abc", "old summary", "COMPLETED">>,
      <<"https://example.org/v", "", "">> }

\* Rows of the store the Scanner is checked on, in every shape the read can
\* return: no cell, column A only (every URL input), columns A and B, and
\* all three columns (every URL input with every status input).
ScanRowChoices ==
    {<<>>} \cup { <<u>> : u \in UrlInputs }
           \cup { <<"https://youtu.be/abc", "">>, <<"https://example.org/v", "kept">> }
           \cup { <<u, "", c>> : u \in UrlInputs, c \in StatusInputs }

SeqsUpTo(S, n) == UNION { [1..k -> S] : k \in 0..n }

Init ==
    /\ sheet \in SeqsUpTo(RowChoices, MaxRows)
    /\ runs = 0
    /\ proc = [p \in Procs |-> IdleProc]
    /\ write_failures = 0

\* The answers of update_acell: it succeeds (TRUE) or raises (FALSE).
WriteOutcomes == IF write_failures < MaxWriteFailures THEN BOOLEAN ELSE {TRUE}

InitScan ==
    /\ sheet \in SeqsUpTo(ScanRowChoices, MaxRows)
    /\ runs = 0
    /\ proc = [p \in Procs |-> IdleProc]
    /\ write_failures = 0

Set(p, s) == proc' = [proc EXCEPT ![p] = s]

\* ------------------------------------------------------------------ actions
\* main() calls run() in a fresh process (lines 305-309, 275-279).
RunStart(p) ==
    /\ proc[p].pc \in {"idle", "done"}
    /\ runs < MaxRuns
    /\ runs' = runs + 1
    /\ Set(p, [IdleProc EXCEPT
                  !.pc = "get_new_urls", !.sheet0 = sheet,
                  !.earlier = proc[p].earlier \cup
                      { [row |-> proc[p].processed[k].row, marks |-> proc[p].marks[k]] :
                            k \in 1..Len(proc[p].processed) }])
    /\ UNCHANGED <<sheet, write_failures>>

RECURSIVE MarkAll(_, _)
\* The store with PROCESSING in the status cell of every entry of w.
MarkAll(sh, w) ==
    IF w = <<>> THEN sh ELSE MarkAll(SetCell(sh, w[1].row, 3, "PROCESSING"), Tail(w))

\* A Scanner that claims what it selects: it writes PROCESSING to the rows
\* of its worklist before it returns.
GetNewUrlsMarking(p) ==
    /\ proc[p].pc = "get_new_urls"
    /\ LET w == ScanRows(sheet)
           s == [proc[p] EXCEPT !.read = "ok", !.scan = "returned", !.new_urls = w]
       IN  /\ sheet' = MarkAll(sheet, w)
           /\ IF w = <<>>
              THEN Set(p, [s EXCEPT !.pc = "done"])
              ELSE Set(p, [s EXCEPT !.pc = "process_url", !.idx = 1])
    /\ UNCHANGED <<runs, write_failures>>

\* Lines 280-287: get_new_urls() (the read of the store succeeds or raises)
\* and the test of its result.
GetNewUrls(p) ==
    /\ proc[p].pc = "get_new_urls"
    /\ \E ok \in BOOLEAN :
         LET got == IF ok THEN Return(ScanRows(sheet))
                    ELSE get_new_urls_except(ReadError)
             s == [proc[p] EXCEPT !.read = IF ok THEN "ok" ELSE "failed"]
         IN  IF Returned(got)
             THEN LET t == [s EXCEPT !.scan = "returned", !.new_urls = got.value[1]]
                  IN  IF t.new_urls = <<>>
                      THEN Set(p, [t EXCEPT !.pc = "done"])
                      ELSE Set(p, [t EXCEPT !.pc = "process_url", !.idx = 1])
             ELSE LET t == [s EXCEPT !.scan = "raised", !.pc = "done"]
                  IN  Set(p, [t EXCEPT !.escaped = ~Returned(run_except(got.value[1]))])
    /\ UNCHANGED <<sheet, runs, write_failures>>

\* A process_url that reads the status cell first and leaves a record that
\* another invocation has taken.
ProcessUrlUnlessTaken(p) ==
    /\ proc[p].pc = "process_url"
    /\ LET s == proc[p]
           e == s.new_urls[s.idx]
           t == [s EXCEPT !.transcript = None, !.analysis = None,
                          !.trace = <<>>, !.ret = "none",
                          !.count0 = <<s.processed_count, s.error_count>>,
                          !.processed = Append(@, e),
                          !.marks = Append(@, {}),
                          !.answers = Append(@, <<FALSE, FALSE>>)]
       IN  IF Cell(sheet, e.row, 3) # ""
           THEN Set(p, ProcessUrlDone(t, Return(FALSE)))
           ELSE Set(p, CallWriter(t, e.row, "PROCESSING", "", "processing"))
    /\ UNCHANGED <<sheet, runs, write_failures>>

\* Lines 239-247: process_url is entered for new_urls[idx] and calls
\* update_sheet_status(row, "PROCESSING").
ProcessUrl(p) ==
    /\ proc[p].pc = "process_url"
    /\ LET s == proc[p]
           e == s.new_urls[s.idx]
           t == [s EXCEPT !.transcript = None, !.analysis = None,
                          !.trace = <<>>, !.ret = "none",
                          !.count0 = <<s.processed_count, s.error_count>>,
                          !.processed = Append(@, e),
                          !.marks = Append(@, {}),
                          !.answers = Append(@, <<FALSE, FALSE>>)]
       IN  Set(p, CallWriter(t, e.row, "PROCESSING", "", "processing"))
    /\ UNCHANGED <<sheet, runs, write_failures>>

\* Lines 222-227: the write of result to column B succeeds or raises.
UpdateResult(p) ==
    /\ proc[p].pc = "update_B"
    /\ \E ok \in WriteOutcomes :
         LET s == proc[p]
             c == s.call
             t == [s EXCEPT !.trace = Append(@, <<"update_acell", "B", c.row, c.result, ok>>)]
             inner == IF ok THEN Return("ok") ELSE update_result_except(WriteError)
         IN  /\ write_failures' = IF ok THEN write_failures ELSE write_failures + 1
             /\ sheet' = IF ok THEN SetCell(sheet, c.row, 2, c.result) ELSE sheet
             /\ IF Returned(inner)
                THEN Set(p, [t EXCEPT !.pc = "update_C"])
                ELSE Set(p, WriterDone(t, update_sheet_except(inner.value[1])))
    /\ UNCHANGED runs

\* Lines 229-237: the write of status to column C succeeds or raises; then
\* update_sheet_status ends and its caller goes on.
UpdateStatus(p) ==
    /\ proc[p].pc = "update_C"
    /\ \E ok \in WriteOutcomes :
         LET s == proc[p]
             c == s.call
             t == [s EXCEPT !.trace = Append(@, <<"update_acell", "C", c.row, c.status, ok>>),
                            !.marks[Len(s.marks)] = IF ok THEN @ \cup {c.status} ELSE @]
             inner == IF ok THEN Return("ok") ELSE update_status_except(WriteError)
         IN  /\ write_failures' = IF ok THEN write_failures ELSE write_failures + 1
             /\ sheet' = IF ok THEN SetCell(sheet, c.row, 3, c.status) ELSE sheet
             /\ IF Returned(inner)
                THEN Set(p, WriterDone(t, Return("None")))
                ELSE Set(p, WriterDone(t, update_sheet_except(inner.value[1])))
    /\ UNCHANGED runs

\* Lines 251-255: get_transcript(url) answers None or a text.
GetTranscriptFrom(p, outcomes) ==
    /\ proc[p].pc = "get_transcript"
    /\ \E out \in outcomes :
         LET s == proc[p]
             t == [s EXCEPT !.transcript = out,
                            !.answers[Len(s.answers)][1] = HasText(out),
                            !.trace = Append(@, <<"get_transcript", s.new_urls[s.idx].url, out>>)]
         IN  IF NoTranscript(out)
             THEN Set(p, process_url_except(t, TranscriptError))
             ELSE Set(p, [t EXCEPT !.pc = "analyze_with_gemini"])
    /\ UNCHANGED <<sheet, runs, write_failures>>

GetTranscript(p) == GetTranscriptFrom(p, FetchOutcomes)

\* Lines 258-263 and 153-178: analyze_with_gemini(transcript, prompt) sends
\* the truncated transcript and answers None or a text.
AnalyzeWithGeminiFrom(p, outcomes) ==
    /\ proc[p].pc = "analyze_with_gemini"
    /\ \E out \in outcomes :
         LET s == proc[p]
             sent == Truncate(s.transcript[1], max_chars)
             t == [s EXCEPT !.analysis = out,
                            !.answers[Len(s.answers)][2] = HasText(out),
                            !.trace = Append(@, <<"analyze_with_gemini", sent, out>>)]
         IN  IF NoAnalysis(out)
             THEN Set(p, process_url_except(t, AnalysisError))
             ELSE Set(p, process_url_success(t, out[1]))
    /\ UNCHANGED <<sheet, runs, write_failures>>

AnalyzeWithGemini(p) == AnalyzeWithGeminiFrom(p, AnalysisOutcomes)

Step(p) ==
    \/ GetNewUrls(p)
    \/ ProcessUrl(p)
    \/ UpdateResult(p)
    \/ UpdateStatus(p)
    \/ GetTranscript(p)
    \/ AnalyzeWithGemini(p)

\* Invocations that never overlap (the cron job): one slot, used again and
\* again.
Next == RunStart(Main) \/ Step(Main)

Spec == Init /\ [][Next]_vars

\* The Scanner alone, on every store of ScanRowChoices: run() up to the
\* return of get_new_urls.
NextScan == RunStart(Main) \/ GetNewUrls(Main)

SpecScan == InitScan /\ [][NextScan]_vars

\* The Scanner called again on the same store: two invocations of run(),
\* each up to the return of its get_new_urls.
NextRescan == \E p \in Procs : RunStart(p) \/ GetNewUrls(p)

SpecRescan == Init /\ [][NextRescan]_vars

\* The eligible record of the stores the long texts are checked on, as the
\* read returns it with and without its trailing empty cells.
TextRowChoices == { <<"https://youtu.be/abc">>, <<"https://youtu.be/abc", "", "">> }

\* Stores of one eligible record, or two.
EligibleStores ==
    { <<r>> : r \in TextRowChoices }
       \cup { << <<"https://youtu.be/abc">>, <<" https://Vimeo.com/7 ", "", " ">> >> }

InitEligible ==
    /\ sheet \in EligibleStores
    /\ runs = 0
    /\ proc = [p \in Procs |-> IdleProc]
    /\ write_failures = 0

\* Invocations that overlap on the same store (two scheduled invocations
\* firing together): the steps of the two interleave in any order, and any
\* write can fail.  The Fetcher and the Summarizer answer.
OverlapFetchOutcomes == {Some("transcript text")}
OverlapAnalysisOutcomes == {Some("summary text")}

NextOverlap ==
    \E p \in Procs :
        \/ RunStart(p)
        \/ GetNewUrls(p)
        \/ ProcessUrl(p)
        \/ UpdateResult(p)
        \/ UpdateStatus(p)
        \/ GetTranscriptFrom(p, OverlapFetchOutcomes)
        \/ AnalyzeWithGeminiFrom(p, OverlapAnalysisOutcomes)

SpecOverlap == InitEligible /\ [][NextOverlap]_vars

\* Invocations that do not overlap and go on once started: every call run()
\* makes returns or raises, so an invocation that can take a step takes it.
SpecLive == InitEligible /\ [][Next]_vars /\ WF_vars(Step(Main))

\* Invocations on a store of one eligible record whose transcript and
\* summary are as long as the two limits, or longer.
InitText ==
    /\ sheet \in { <<r>> : r \in TextRowChoices }
    /\ runs = 0
    /\ proc = [p \in Procs |-> IdleProc]
    /\ write_failures = 0

NextText ==
    \/ RunStart(Main)
    \/ GetNewUrls(Main)
    \/ ProcessUrl(Main)
    \/ UpdateResult(Main)
    \/ UpdateStatus(Main)
    \/ GetTranscriptFrom(Main, LongFetchOutcomes)
    \/ AnalyzeWithGeminiFrom(Main, LongAnalysisOutcomes)

SpecText == InitText /\ [][NextText]_vars

\* =================================================================== claims
\* A cell that holds nothing but blanks (or nothing at all).
IsBlank(text) == \A i \in 1..Len(text) : CharAt(text, i) \in Whitespace

\* The rows of store sh that entry list w names.
RowsOf(w) == { w[k].row : k \in 1..Len(w) }

\* get_new_urls of invocation p has returned, and its read had succeeded.
Scanned(p) == proc[p].scan = "returned" /\ proc[p].read = "ok"

\* C1 (as stated): get_new_urls never selects a row whose status cell is
\* non-empty, whatever the value.
C1_NonEmptyStatusNeverSelected ==
    \A p \in Procs : Scanned(p) =>
        \A i \in 1..Len(proc[p].sheet0) :
            Cell(proc[p].sheet0, i, 3) # "" => i \notin RowsOf(proc[p].new_urls)

\* C1 (amended): get_new_urls never selects a row whose status cell holds
\* anything but blanks, whatever the URL and whatever the value (a label or
\* any other text).
C1_NonBlankStatusNeverSelected ==
    \A p \in Procs : Scanned(p) =>
        \A i \in 1..Len(proc[p].sheet0) :
            ~IsBlank(Cell(proc[p].sheet0, i, 3)) => i \notin RowsOf(proc[p].new_urls)

\* A scan that met a supported URL whose status is a manual annotation, and
\* selected another row.
C1_Witness ==
    /\ Scanned(Main)
    /\ proc[Main].new_urls # <<>>
    /\ \E i \in 1..Len(proc[Main].sheet0) :
          /\ Cell(proc[Main].sheet0, i, 3) = "done"
          /\ Cell(proc[Main].sheet0, i, 1) = "https://youtu.be/abc"

\* The rows a scan of sh has to select, with "empty status" read as the
\* predicate NoStatus.
EligibleRows(sh, NoStatus(_)) ==
    { i \in 1..Len(sh) : NoStatus(Cell(sh, i, 3)) /\ Supported(Cell(sh, i, 1)) }

\* w lists exactly the rows of E, once each, in row order, each with its
\* position and its URL.
IsWorklistOf(w, sh, E) ==
    /\ RowsOf(w) = E
    /\ \A j, k \in 1..Len(w) : j < k => w[j].row < w[k].row
    /\ \A k \in 1..Len(w) : w[k].url = strip(Cell(sh, w[k].row, 1))

IsEmptyText(text) == text = ""

\* C2 (as stated): the worklist is exactly the rows with an empty status and
\* a URL passing the Classifier, once each, as {url, row}, in row order.
C2_WorklistIsEmptyStatusRows ==
    \A p \in Procs : Scanned(p) =>
        IsWorklistOf(proc[p].new_urls, proc[p].sheet0,
                     EligibleRows(proc[p].sheet0, IsEmptyText))

\* C2 (amended): the worklist is exactly the rows whose status cell is empty
\* or blank (a row with fewer than three columns included) and whose URL
\* passes the Classifier, once each, as {trimmed url, 1-based row}, in row
\* order.
C2_WorklistIsBlankStatusRows ==
    \A p \in Procs : Scanned(p) =>
        IsWorklistOf(proc[p].new_urls, proc[p].sheet0,
                     EligibleRows(proc[p].sheet0, IsBlank))

\* A scan that selected two rows, one of them returned with column A only.
C2_Witness ==
    /\ Scanned(Main)
    /\ Len(proc[Main].new_urls) = 2
    /\ \E k \in 1..2 : Len(proc[Main].sheet0[proc[Main].new_urls[k].row]) = 1

\* ------------------------------------------------------------ C3, the status
Labels == {"PROCESSING", "COMPLETED", "ERROR"}
Terminal == {"COMPLETED", "ERROR"}

IsPrefix(a, b) == Len(a) <= Len(b) /\ SubSeq(b, 1, Len(a)) = a

\* C4: whatever failed on earlier entries, run() invokes process_url on
\* every entry of the worklist, in scan order (the entries handed over so
\* far are always the first ones of the worklist, the next one is the one
\* after them, and at the end they are the whole worklist), and no exception
\* leaves run().
C4_EveryEntryProcessed ==
    \A p \in Procs :
        /\ ~proc[p].escaped
        /\ IsPrefix(proc[p].processed, proc[p].new_urls)
        /\ proc[p].pc = "process_url" => proc[p].idx = Len(proc[p].processed) + 1
        /\ proc[p].pc = "done" => proc[p].processed = proc[p].new_urls

\* A run of two entries has ended: the first entry failed at the Fetcher,
\* the second went through.
C4_Witness ==
    /\ proc[Main].pc = "done"
    /\ Len(proc[Main].new_urls) = 2
    /\ proc[Main].answers = << <<FALSE, FALSE>>, <<TRUE, TRUE>> >>

\* --------------------------------------------------------------- C5, counts
\* The entries (by position) whose Fetcher and Summarizer both answered with
\* a text.
BothText(p) == { k \in 1..Len(proc[p].answers) :
                    proc[p].answers[k][1] /\ proc[p].answers[k][2] }

\* C5: when run() has exhausted a worklist, processed_count is the number of
\* entries whose Fetcher and Summarizer both yielded text, error_count the
\* number of the others, their sum the length of the worklist; a COMPLETED
\* status is only on rows of the first kind, an ERROR status only on rows
\* of the second, and when no write failed every row carries the status of
\* its own outcome.
C5_CountsMatchOutcomes ==
    \A p \in Procs : proc[p].pc = "done" /\ proc[p].new_urls # <<>> =>
        /\ Len(proc[p].answers) = Len(proc[p].new_urls)
        /\ proc[p].processed_count = Cardinality(BothText(p))
        /\ proc[p].error_count = Len(proc[p].new_urls) - Cardinality(BothText(p))
        /\ proc[p].processed_count + proc[p].error_count = Len(proc[p].new_urls)
        /\ \A k \in 1..Len(proc[p].new_urls) :
              LET c == Cell(sheet, proc[p].new_urls[k].row, 3)
              IN  /\ c = "COMPLETED" => k \in BothText(p)
                  /\ c = "ERROR" => k \notin BothText(p)
                  /\ write_failures = 0 =>
                        c = IF k \in BothText(p) THEN "COMPLETED" ELSE "ERROR"

\* The scenario of the claim: two entries, the first fails at the
\* Summarizer, the second succeeds.
C5_Witness ==
    /\ proc[Main].pc = "done"
    /\ proc[Main].answers = << <<TRUE, FALSE>>, <<TRUE, TRUE>> >>
    /\ proc[Main].processed_count = 1
    /\ proc[Main].error_count = 1
    /\ Cell(sheet, proc[Main].new_urls[1].row, 3) = "ERROR"
    /\ Cell(sheet, proc[Main].new_urls[2].row, 3) = "COMPLETED"

\* ------------------------------------------------- C6-C8, one process_url
\* process_url of invocation p has returned (and the next has not begun).
Ended(p) == proc[p].ret # "none"

\* The entry the last process_url was invoked on.
LastEntry(p) == proc[p].processed[Len(proc[p].processed)]

\* The Status Writer calls of the current process_url, in order.
WriterCalls(p) == SelectSeq(proc[p].trace, LAMBDA e : e[1] = "update_sheet_status")

Called(p, what) == \E i \in 1..Len(proc[p].trace) : proc[p].trace[i][1] = what

\* The answer of collaborator `what` in the current process_url had a text.
Answered(p, what, text) ==
    \E i \in 1..Len(proc[p].trace) :
        /\ proc[p].trace[i][1] = what
        /\ HasText(proc[p].trace[i][3]) = text

WriterCall(row, status, result) == <<"update_sheet_status", row, status, result>>

\* C6: when the Fetcher yields None or an empty text, process_url calls the
\* Status Writer with (row, "ERROR", "Error: Could not retrieve transcript
\* using Supadata") after the PROCESSING call, does not call the Summarizer
\* and returns False: error_count grows by one, processed_count stays.
C6_FetchFailureIsError ==
    \A p \in Procs : Ended(p) /\ Answered(p, "get_transcript", FALSE) =>
        /\ WriterCalls(p) =
              << WriterCall(LastEntry(p).row, "PROCESSING", ""),
                 WriterCall(LastEntry(p).row, "ERROR",
                            "Error: Could not retrieve transcript using Supadata") >>
        /\ ~Called(p, "analyze_with_gemini")
        /\ proc[p].ret = "False"
        /\ proc[p].error_count = proc[p].count0[2] + 1
        /\ proc[p].processed_count = proc[p].count0[1]

\* The Fetcher answered with the empty text and process_url has returned.
C6_Witness ==
    /\ Ended(Main)
    /\ proc[Main].transcript = Some("")
    /\ proc[Main].error_count = 1

\* The text the Summarizer answered with in the current process_url.
Summary(p) ==
    LET tr == proc[p].trace
    IN  tr[CHOOSE i \in 1..Len(tr) : tr[i][1] = "analyze_with_gemini"][3][1]

\* C7: when the Fetcher and the Summarizer both yield text, process_url
\* calls the Status Writer with (row, "COMPLETED", the summary), never with
\* "ERROR", and returns True: processed_count grows by one.
C7_SuccessIsCompleted ==
    \A p \in Procs :
        Ended(p) /\ Answered(p, "get_transcript", TRUE)
                 /\ Answered(p, "analyze_with_gemini", TRUE) =>
        /\ WriterCalls(p) =
              << WriterCall(LastEntry(p).row, "PROCESSING", ""),
                 WriterCall(LastEntry(p).row, "COMPLETED", Summary(p)) >>
        /\ proc[p].ret = "True"
        /\ proc[p].processed_count = proc[p].count0[1] + 1
        /\ proc[p].error_count = proc[p].count0[2]

\* process_url has returned True and the summary and COMPLETED are stored.
C7_Witness ==
    /\ Ended(Main)
    /\ proc[Main].ret = "True"
    /\ Cell(sheet, LastEntry(Main).row, 2) = "summary text"
    /\ Cell(sheet, LastEntry(Main).row, 3) = "COMPLETED"

\* The last write to column col in the current process_url succeeded.
LastWriteOk(p, col) ==
    LET tr == proc[p].trace
        at == { i \in 1..Len(tr) : tr[i][1] = "update_acell" /\ tr[i][2] = col }
    IN  at # {} /\ tr[CHOOSE i \in at : \A j \in at : j <= i][5]

\* C8: when the Fetcher yields text and the Summarizer yields None or an
\* empty text, process_url calls the Status Writer with (row, "ERROR",
\* "Error: Gemini analysis failed"), never with "COMPLETED", and returns
\* False; the writes that succeed leave that message in column B and ERROR
\* in column C.
C8_AnalysisFailureIsError ==
    \A p \in Procs :
        Ended(p) /\ Answered(p, "get_transcript", TRUE)
                 /\ Answered(p, "analyze_with_gemini", FALSE) =>
        /\ WriterCalls(p) =
              << WriterCall(LastEntry(p).row, "PROCESSING", ""),
                 WriterCall(LastEntry(p).row, "ERROR", "Error: Gemini analysis failed") >>
        /\ proc[p].ret = "False"
        /\ proc[p].error_count = proc[p].count0[2] + 1
        /\ Cell(sheet, LastEntry(p).row, 3) # "COMPLETED"
        /\ LastWriteOk(p, "B") =>
              Cell(sheet, LastEntry(p).row, 2) = "Error: Gemini analysis failed"
        /\ LastWriteOk(p, "C") => Cell(sheet, LastEntry(p).row, 3) = "ERROR"

\* The Summarizer answered with the empty text; the record is in ERROR.
C8_Witness ==
    /\ Ended(Main)
    /\ proc[Main].analysis = Some("")
    /\ Cell(sheet, LastEntry(Main).row, 2) = "Error: Gemini analysis failed"
    /\ Cell(sheet, LastEntry(Main).row, 3) = "ERROR"

\* --------------------------------------------------------- C9, read failure
\* C9: when the read of the store fails, get_new_urls returns an empty
\* worklist and run() returns without an exception, with no process_url, no
\* Status Writer call and no write to the store.
C9_ReadFailureDoesNothing ==
    \A p \in Procs : proc[p].read = "failed" =>
        /\ proc[p].scan = "returned"
        /\ proc[p].new_urls = <<>>
        /\ proc[p].pc = "done"
        /\ ~proc[p].escaped
        /\ proc[p].processed = <<>>
        /\ proc[p].trace = <<>>
        /\ sheet = proc[p].sheet0

\* The read failed on a store whose first row is an eligible record.
C9_Witness ==
    /\ proc[Main].read = "failed"
    /\ proc[Main].pc = "done"
    /\ Len(sheet) > 0
    /\ sheet[1] = <<"https://youtu.be/abc", "", "">>

\* ------------------------------------------------------ C10, Status Writer
IsAttempt(e, col, row) == e[1] = "update_acell" /\ e[2] = col /\ e[3] = row

\* Call i of trace tr has ended.
CallEnded(tr, i) == \E j \in (i + 1)..Len(tr) : tr[j][1] = "end"

\* C10: every update_sheet_status(row, status, result) that has ended
\* attempted the write of status to column C of row, after the attempt to
\* write result to column B when result is non-empty (whether or not that
\* attempt failed) and with no column-B attempt when it is empty, and then
\* returned to its caller.
C10_StatusWriteAlwaysAttempted ==
    \A p \in Procs :
        LET tr == proc[p].trace
        IN  \A i \in 1..Len(tr) :
              tr[i][1] = "update_sheet_status" /\ CallEnded(tr, i) =>
                LET c == IF tr[i][4] # "" THEN i + 2 ELSE i + 1
                IN  /\ c + 1 <= Len(tr)
                    /\ tr[i][4] # "" => IsAttempt(tr[i + 1], "B", tr[i][2])
                    /\ IsAttempt(tr[c], "C", tr[i][2])
                    /\ tr[c][4] = tr[i][3]
                    /\ tr[c + 1] = <<"end", "return">>

\* A call whose column-B write and column-C write both failed has ended.
C10_Witness ==
    LET tr == proc[Main].trace
    IN  \E i \in 1..Len(tr) :
          /\ i + 2 <= Len(tr)
          /\ IsAttempt(tr[i], "B", LastEntry(Main).row) /\ ~tr[i][5]
          /\ IsAttempt(tr[i + 1], "C", LastEntry(Main).row) /\ ~tr[i + 1][5]
          /\ tr[i + 2][1] = "end"

\* ------------------------------------------------------- C11, C12, long texts
\* The writes to column B of the current process_url that succeeded.
WrittenResults(p) ==
    { proc[p].trace[i][4] : i \in { j \in 1..Len(proc[p].trace) :
         /\ proc[p].trace[j][1] = "update_acell"
         /\ proc[p].trace[j][2] = "B"
         /\ proc[p].trace[j][5] } }

\* C11 (as stated): every result text written to column B is at most 50,000
\* characters long, whatever the length of the summary or error message it
\* comes from.
C11_ResultAtMostMaxCellChars ==
    \A p \in Procs : \A text \in WrittenResults(p) : Len(text) <= 50000

\* `passed` is `text` under the rule with limit `limit`: the text itself when
\* it has at most limit characters, else its first limit characters and
\* then the marker.
FollowsRule(text, passed, limit) ==
    IF Len(text) <= limit THEN passed = text
    ELSE /\ Len(passed) = limit + Len("... [TRUNCATED]")
         /\ SubSeq(passed, 1, limit) = SubSeq(text, 1, limit)
         /\ SubSeq(passed, limit + 1, Len(passed)) = "... [TRUNCATED]"

\* C12: what the Status Writer tries to write to column B is the result it
\* was called with under the rule with limit 50,000, and what the Summarizer
\* sends to the LLM is the transcript the Fetcher returned under the rule
\* with limit 100,000.
C12_TruncationRule ==
    \A p \in Procs :
        LET tr == proc[p].trace
        IN  \A i \in 1..Len(tr) :
              /\ tr[i][1] = "update_acell" /\ tr[i][2] = "B" =>
                    /\ i > 1
                    /\ tr[i - 1][1] = "update_sheet_status"
                    /\ FollowsRule(tr[i - 1][4], tr[i][4], 50000)
              /\ tr[i][1] = "analyze_with_gemini" =>
                    /\ i > 1
                    /\ tr[i - 1][1] = "get_transcript"
                    /\ FollowsRule(tr[i - 1][3][1], tr[i][2], 100000)

\* A transcript of 100,001 characters was sent cut to 100,000 and the
\* marker, and a summary of 50,001 characters is stored cut to 50,000 and
\* the marker.
C12_Witness ==
    /\ Ended(Main)
    /\ proc[Main].transcript # None /\ proc[Main].analysis # None
    /\ Len(proc[Main].transcript[1]) = 100001
    /\ Len(proc[Main].analysis[1]) = 50001
    /\ \E i \in 1..Len(proc[Main].trace) :
          /\ proc[Main].trace[i][1] = "analyze_with_gemini"
          /\ Len(proc[Main].trace[i][2]) = 100015
    /\ Len(Cell(sheet, 1, 2)) = 50015

\* ------------------------------------------------------- C13, idempotence
\* Invocations p and q have both called get_new_urls, on the same store.
BothReturned(p, q) ==
    /\ proc[p].scan = "returned" /\ proc[q].scan = "returned"
    /\ proc[p].sheet0 = sheet /\ proc[q].sheet0 = sheet

Tags(tr) == [i \in 1..Len(tr) |-> tr[i][1]]

\* The steps of one process_url, with or without the Summarizer: the
\* PROCESSING call and its one write, the Fetcher, the Summarizer, the
\* terminal call and its two writes.
StepsInOrder(summarized) ==
    <<"update_sheet_status", "update_acell", "end", "get_transcript">>
       \o (IF summarized THEN <<"analyze_with_gemini">> ELSE <<>>)
       \o <<"update_sheet_status", "update_acell", "update_acell", "end">>

\* C14: the steps of every process_url are, in this order: the Status Writer
\* call with PROCESSING and no result, which only attempts the column-C
\* write; whether or not that write failed, the Fetcher; the Summarizer if
\* and only if the Fetcher yielded text; and exactly one Status Writer call
\* with COMPLETED or ERROR and a result, which attempts the column-B write
\* and then the column-C write.
C14_StepsInOrder ==
    \A p \in Procs : proc[p].trace # <<>> =>
        LET tr == proc[p].trace
            n == Len(tr)
            row == LastEntry(p).row
        IN  /\ \E summarized \in BOOLEAN : IsPrefix(Tags(tr), StepsInOrder(summarized))
            /\ tr[1] = WriterCall(row, "PROCESSING", "")
            /\ n >= 2 => IsAttempt(tr[2], "C", row) /\ tr[2][4] = "PROCESSING"
            /\ Called(p, "analyze_with_gemini") => Answered(p, "get_transcript", TRUE)
            /\ Ended(p) =>
                  /\ Tags(tr) = StepsInOrder(Answered(p, "get_transcript", TRUE))
                  /\ tr[n - 3][2] = row
                  /\ tr[n - 3][3] \in Terminal
                  /\ tr[n - 3][4] # ""
                  /\ IsAttempt(tr[n - 2], "B", row)
                  /\ IsAttempt(tr[n - 1], "C", row)
                  /\ tr[n - 1][4] = tr[n - 3][3]

\* A process_url whose PROCESSING write failed has gone through the Fetcher
\* and the Summarizer and has ended with its terminal writes.
C14_Witness ==
    /\ Ended(Main)
    /\ Len(proc[Main].trace) = 9
    /\ ~proc[Main].trace[2][5]
    /\ Called(Main, "get_transcript")
    /\ Called(Main, "analyze_with_gemini")

\* ------------------------------------------------------ C15, write failures
\* A write of the current process_url to column col failed after the
\* Summarizer had answered.
TerminalWriteFailed(p, col) ==
    LET tr == proc[p].trace
    IN  \E i, j \in 1..Len(tr) :
          /\ i < j
          /\ tr[i][1] = "analyze_with_gemini"
          /\ tr[j][1] = "update_acell" /\ tr[j][2] = col /\ ~tr[j][5]

\* C15: when the Fetcher and the Summarizer both yielded text and the write
\* of the result or the write of COMPLETED failed, process_url returns True,
\* run() counts a success and no error, and no ERROR write is attempted.
C15_WriteFailureKeepsOutcome ==
    \A p \in Procs :
        /\ Ended(p)
        /\ Answered(p, "get_transcript", TRUE)
        /\ Answered(p, "analyze_with_gemini", TRUE)
        /\ TerminalWriteFailed(p, "B") \/ TerminalWriteFailed(p, "C")
        => /\ proc[p].ret = "True"
           /\ proc[p].processed_count = proc[p].count0[1] + 1
           /\ proc[p].error_count = proc[p].count0[2]
           /\ \A i \in 1..Len(proc[p].trace) :
                 /\ proc[p].trace[i][1] = "update_sheet_status" => proc[p].trace[i][3] # "ERROR"
                 /\ proc[p].trace[i][1] = "update_acell" => proc[p].trace[i][4] # "ERROR"

\* The write of the summary and the write of COMPLETED have both failed, the
\* record counts as a success and its status cell is not COMPLETED.
C15_Witness ==
    /\ Ended(Main)
    /\ TerminalWriteFailed(Main, "B")
    /\ TerminalWriteFailed(Main, "C")
    /\ proc[Main].processed_count = 1
    /\ Cell(sheet, LastEntry(Main).row, 3) # "COMPLETED"

\* ------------------------------------------------- C16, C17, overlapping runs
\* The status cell of row i holds one of the labels this system writes.
Marked(sh, i) == Cell(sh, i, 3) \in Labels

\* This step is the return of a get_new_urls call of invocation p.
ScanStep(p) == proc[p].scan = "none" /\ proc'[p].scan # "none"

\* C16: with invocations that overlap, a status cell that holds PROCESSING
\* holds a label from then on, and a get_new_urls call made while the status
\* cell of a row holds a label does not select the row: once the status is
\* PROCESSING, no later call of any invocation selects the Record.
C16_ProcessingNeverSelected ==
    [][ /\ \A i \in 1..Len(sheet) : Marked(sheet, i) => Marked(sheet', i)
        /\ \A p \in Procs : ScanStep(p) =>
              \A i \in 1..Len(sheet) :
                  Marked(sheet, i) => i \notin RowsOf(proc'[p].new_urls) ]_vars

\* One invocation has written PROCESSING to the first of two records and is
\* at its Fetcher; the other, started after that, has read the store and
\* selected only the second record.
C16_Witness ==
    /\ proc["run1"].pc = "get_transcript"
    /\ proc["run1"].idx = 1
    /\ Cell(sheet, 1, 3) = "PROCESSING"
    /\ Len(proc["run2"].sheet0) = 2
    /\ Cell(proc["run2"].sheet0, 1, 3) = "PROCESSING"
    /\ proc["run2"].read = "ok"
    /\ RowsOf(proc["run2"].new_urls) = {2}

\* The rows that the worklists of invocations p and q both hold: each was
\* selected by the two get_new_urls calls before either invocation had
\* written a status to it.
SharedRows(p, q) == RowsOf(proc[p].new_urls) \cap RowsOf(proc[q].new_urls)

\* C17: with invocations that overlap, a Record in the worklists of both is
\* processed by both: when an invocation has ended its process_url on such
\* a Record it has called the Fetcher, the Summarizer if the Fetcher yielded
\* text, and the Status Writer with COMPLETED or ERROR, whatever the other
\* invocation has written to the Record; and an invocation that is done has
\* handed every such Record to process_url.
C17_SharedRecordProcessedByBoth ==
    \A p, q \in Procs : p # q =>
        /\ Ended(p) /\ LastEntry(p).row \in SharedRows(p, q) =>
              /\ Called(p, "get_transcript")
              /\ Answered(p, "get_transcript", TRUE) => Called(p, "analyze_with_gemini")
              /\ Len(WriterCalls(p)) = 2
              /\ WriterCalls(p)[2][2] = LastEntry(p).row
              /\ WriterCalls(p)[2][3] \in Terminal
        /\ proc[p].pc = "done" => SharedRows(p, q) \subseteq RowsOf(proc[p].processed)

\* The interleaving of the claim: both invocations selected the one Record
\* of the store while its status was empty, and both have run the Fetcher,
\* the Summarizer and the COMPLETED write on it.
C17_Witness ==
    /\ Len(sheet) = 1
    /\ \A p \in Procs :
          /\ proc[p].pc = "done"
          /\ proc[p].sheet0 = << <<"https://youtu.be/abc">> >>
          /\ RowsOf(proc[p].new_urls) = {1}
          /\ proc[p].answers = << <<TRUE, TRUE>> >>
          /\ proc[p].ret = "True"
          /\ proc[p].processed_count = 1
    /\ Cell(sheet, 1, 3) = "COMPLETED"

\* ------------------------------------------------- C18, no double-processing
\* The entries of w name different rows.
DistinctRows(w) == \A j, k \in 1..Len(w) : j # k => w[j].row # w[k].row

\* C18 (as stated): across invocations that do not overlap, each Record is
\* handed to process_url at most once: at most once in an invocation, and a
\* Record processed in one invocation is never selected by a later one.
C18_NoDoubleProcessing ==
    \A p \in Procs :
        /\ DistinctRows(proc[p].processed)
        /\ \A e \in proc[p].earlier : e.row \notin RowsOf(proc[p].new_urls)

\* C18 (amended): across invocations that do not overlap, each Record is
\* handed to process_url at most once in an invocation, and a Record
\* processed in one invocation with at least one of its status writes
\* succeeding is never selected by a later one.
C18_NoDoubleProcessingOnceMarked ==
    \A p \in Procs :
        /\ DistinctRows(proc[p].processed)
        /\ \A e \in proc[p].earlier :
              e.marks # {} => e.row \notin RowsOf(proc[p].new_urls)

\* The first invocation processed two records, the status writes of the
\* first all failed and the second one got its COMPLETED; the second
\* invocation has read the store and selected the first record only.
C18_Witness ==
    /\ runs = 2
    /\ proc[Main].read = "ok"
    /\ proc[Main].earlier =
          { [row |-> 1, marks |-> {}], [row |-> 2, marks |-> {"PROCESSING", "COMPLETED"}] }
    /\ RowsOf(proc[Main].new_urls) = {1}

\* ------------------------------------------------------ C19, completion
\* Invocation p has exhausted a non-empty worklist.
Completed(p) == proc[p].pc = "done" /\ proc[p].new_urls # <<>>

\* C19 (as stated, its final state): when a run has completed a non-empty
\* worklist, every Record of the worklist has the status COMPLETED or ERROR
\* in the store.
C19_AllTerminalAtEnd ==
    \A p \in Procs : Completed(p) =>
        \A k \in 1..Len(proc[p].new_urls) :
            Cell(sheet, proc[p].new_urls[k].row, 3) \in Terminal

\* The status a record ends with: COMPLETED when the Fetcher and the
\* Summarizer both yielded text, else ERROR.
Outcome(p, k) == IF k \in BothText(p) THEN "COMPLETED" ELSE "ERROR"

ErrorMessages ==
    { "Error: Could not retrieve transcript using Supadata",
      "Error: Gemini analysis failed" }

\* The store at the end of a worklist: every status write was attempted
\* (none is missing when no write failed); a Record whose terminal status
\* write succeeded holds the status of its outcome; the others hold
\* PROCESSING, or what they held before when that write failed too; a Record
\* in ERROR holds its message in column B unless that write failed.
StoreAtEnd(p) ==
    /\ Len(proc[p].marks) = Len(proc[p].new_urls)
    /\ Len(proc[p].answers) = Len(proc[p].new_urls)
    /\ \A k \in 1..Len(proc[p].new_urls) :
          LET row == proc[p].new_urls[k].row
              c == Cell(sheet, row, 3)
              written == proc[p].marks[k]
          IN  /\ written \subseteq {"PROCESSING", Outcome(p, k)}
              /\ write_failures = 0 => written = {"PROCESSING", Outcome(p, k)}
              /\ c = IF Outcome(p, k) \in written THEN Outcome(p, k)
                     ELSE IF "PROCESSING" \in written THEN "PROCESSING"
                     ELSE Cell(proc[p].sheet0, row, 3)
              /\ c = "ERROR" =>
                    Cell(sheet, row, 2) \in ErrorMessages \cup {Cell(proc[p].sheet0, row, 2)}

\* C19 (amended): every run that scanned a non-empty worklist eventually
\* completes it, and at that point every Record of the worklist whose
\* terminal status write succeeded has the status COMPLETED or ERROR in the
\* store (ERROR for a failed record, with its message in column B when that
\* write succeeded); a Record whose terminal status write failed is left at
\* PROCESSING, or at its empty status when that write failed too.
C19_WorklistCompleted ==
    /\ \A p \in Procs : (proc[p].new_urls # <<>>) ~> Completed(p)
    /\ [](\A p \in Procs : Completed(p) => StoreAtEnd(p))

\* A run has completed a worklist of two records: the first failed at the
\* Fetcher and is in ERROR with its message, the terminal status write of
\* the second failed and it is left at PROCESSING.
C19_Witness ==
    /\ Completed(Main)
    /\ Len(proc[Main].new_urls) = 2
    /\ proc[Main].answers = << <<FALSE, FALSE>>, <<TRUE, TRUE>> >>
    /\ Cell(sheet, 1, 3) = "ERROR"
    /\ Cell(sheet, 1, 2) = "Error: Could not retrieve transcript using Supadata"
    /\ proc[Main].marks[2] = {"PROCESSING"}
    /\ Cell(sheet, 2, 3) = "PROCESSING"

\* --------------------------------------------------------------- C20, frame
\* C20: during and after a run (none overlapping it) the store has the rows
\* it had when the run started, column A of every row is what it was, and
\* every row that is not in the run's worklist is what it was, columns B and
\* C included: the run writes only to columns B and C of the rows of its
\* worklist.
C20_Frame ==
    \A p \in Procs : proc[p].pc # "idle" =>
        /\ Len(sheet) = Len(proc[p].sheet0)
        /\ \A i \in 1..Len(sheet) :
              /\ Cell(sheet, i, 1) = Cell(proc[p].sheet0, i, 1)
              /\ i \notin RowsOf(proc[p].new_urls) => sheet[i] = proc[p].sheet0[i]

\* A run on a store of an eligible record and a record already handled has
\* ended: the first holds its summary and COMPLETED, the second is as it
\* was.
C20_Witness ==
    /\ proc[Main].pc = "done"
    /\ RowsOf(proc[Main].new_urls) = {1}
    /\ Len(sheet) = 2
    /\ Cell(sheet, 1, 2) = "summary text"
    /\ Cell(sheet, 1, 3) = "COMPLETED"
    /\ sheet[1] # proc[Main].sheet0[1]
    /\ sheet[2] = <<"https://youtu.be/abc", "old summary", "COMPLETED">>

====
